---- MODULE Spec2Model ----
(***************************************************************************)
(* Model of Streamlit-to-do-list.py: the persisted completion store        *)
(* (state.json), the cadence reset logic of load_state, save_state, and    *)
(* the session script (initialization, checkbox turns, "Reset All").       *)
(*                                                                         *)
(* Python strings that the code inspects character by character (task      *)
(* ids, cadence labels, values) are sequences of one-character strings.    *)
(* A datetime is a record [year, month, day, hour]; its ISO text form, as   *)
(* stored under "last_update", is the tuple <<year, month, day, hour>>.     *)
(***************************************************************************)
EXTENDS Integers, Sequences, FiniteSets, TLC

VARIABLES
    now,                        \* the wall clock read by datetime.now()
    file,                       \* state.json on disk
    status,                     \* the session: "closed", "ready" or "error"
    task_states,                \* st.session_state.task_states
    last_paid_task_surprise,    \* st.session_state.last_paid_task_surprise
    last_daily_task_surprise,   \* st.session_state.last_daily_task_surprise
    toast,                      \* the surprises surfaced by the last script run
    again,                      \* the reset logic applied to its own result
    pc,                         \* position inside save_state (crash model)
    csv,                        \* the rows of the CSV behind CSV_URL
    df,                         \* what load_data(CSV_URL) returned
    writers                     \* save_state calls running side by side

vars == <<now, file, status, task_states, last_paid_task_surprise,
          last_daily_task_surprise, toast, again, pc, csv, df, writers>>

----------------------------------------------------------------------------
(* Bounds of the model.                                                    *)

\* The clock ranges over the years 2024 .. 2024 + MaxYears.
MaxYears == 2

\* A catalog drawn as input of load_data has at most MaxRows rows.
MaxRows == 2

----------------------------------------------------------------------------
(* Strings.                                                                *)

None == <<>>

S_Daily == <<"D", "a", "i", "l", "y">>
S_Weekly == <<"W", "e", "e", "k", "l", "y">>
S_Monthly == <<"M", "o", "n", "t", "h", "l", "y">>
S_daily == <<"d", "a", "i", "l", "y">>
S_weekly == <<"w", "e", "e", "k", "l", "y">>
S_monthly == <<"m", "o", "n", "t", "h", "l", "y">>
S_Yearly == <<"Y", "e", "a", "r", "l", "y">>
S_MustDo == <<"M", "u", "s", "t", " ", "d", "o">>

\* str.startswith
startswith(s, prefix) ==
    /\ Len(s) >= Len(prefix)
    /\ SubSeq(s, 1, Len(prefix)) = prefix

\* the `in` operator on strings: needle occurs in s
contains(s, needle) ==
    \E i \in 1..(Len(s) + 1) :
        /\ i + Len(needle) - 1 <= Len(s)
        /\ SubSeq(s, i, i + Len(needle) - 1) = needle

\* str.lower, on the letters the cadence labels use
lower_char(c) ==
    CASE c = "D" -> "d" [] c = "W" -> "w" [] c = "M" -> "m" [] c = "Y" -> "y"
      [] c = "E" -> "e" [] c = "K" -> "k" [] c = "L" -> "l" [] c = "A" -> "a"
      [] c = "I" -> "i" [] c = "O" -> "o" [] c = "N" -> "n" [] c = "T" -> "t"
      [] c = "H" -> "h" [] c = "R" -> "r"
      [] OTHER -> c

lower(s) == [i \in 1..Len(s) |-> lower_char(s[i])]

\* f"{row['Cadence']}_{row['Task']}"
task_id_of(cadence, task) == cadence \o <<"_">> \o task

----------------------------------------------------------------------------
(* Dictionaries str -> bool.                                               *)

EmptyDict == [k \in {} |-> FALSE]

\* dict.get(key, False)
Get(d, k) == IF k \in DOMAIN d THEN d[k] ELSE FALSE

\* d[key] = value
Put(d, k, v) == [x \in (DOMAIN d) \cup {k} |-> IF x = k THEN v ELSE d[x]]

\* variant: the matching records are deleted instead of set to False
ClearPrefixDropping(d, prefix) ==
    [k \in {x \in DOMAIN d : ~startswith(x, prefix)} |-> d[k]]

\* for task_id in list(d.keys()): if task_id.startswith(prefix): d[task_id] = False
ClearPrefix(d, prefix) ==
    [k \in DOMAIN d |-> IF startswith(k, prefix) THEN FALSE ELSE d[k]]

----------------------------------------------------------------------------
(* The calendar, as datetime computes it.                                  *)

is_leap(y) == (y % 4 = 0) /\ ((y % 100 # 0) \/ (y % 400 = 0))

days_in_month(y, m) ==
    CASE m = 2 -> IF is_leap(y) THEN 29 ELSE 28
      [] m \in {4, 6, 9, 11} -> 30
      [] OTHER -> 31

days_before_year(y) ==
    (y - 1) * 365 + ((y - 1) \div 4) - ((y - 1) \div 100) + ((y - 1) \div 400)

RECURSIVE days_before_month(_, _)
days_before_month(y, m) ==
    IF m = 1 THEN 0 ELSE days_before_month(y, m - 1) + days_in_month(y, m - 1)

ymd2ord(y, m, d) == days_before_year(y) + days_before_month(y, m) + d

\* ordinal of the Monday starting ISO week 1 of the year
isoweek1monday(y) ==
    LET firstday == ymd2ord(y, 1, 1)
        firstweekday == (firstday + 6) % 7
        week1monday == firstday - firstweekday
    IN  IF firstweekday > 3 THEN week1monday + 7 ELSE week1monday

\* datetime.isocalendar(): <<ISO year, ISO week>>
isocalendar(dt) ==
    LET today == ymd2ord(dt.year, dt.month, dt.day)
        week == (today - isoweek1monday(dt.year)) \div 7
    IN  IF week < 0
        THEN <<dt.year - 1, ((today - isoweek1monday(dt.year - 1)) \div 7) + 1>>
        ELSE IF week >= 52 /\ today >= isoweek1monday(dt.year + 1)
        THEN <<dt.year + 1, 1>>
        ELSE <<dt.year, week + 1>>

\* datetime.date(), compared as dates compare
date_of(dt) == <<dt.year, dt.month, dt.day>>

date_gt(a, b) ==
    \/ a[1] > b[1]
    \/ a[1] = b[1] /\ a[2] > b[2]
    \/ a[1] = b[1] /\ a[2] = b[2] /\ a[3] > b[3]

\* datetime.isoformat()
isoformat(dt) == <<dt.year, dt.month, dt.day, dt.hour>>

\* datetime.fromisoformat() accepts the text or raises ValueError
iso_parses(s) ==
    /\ Len(s) = 4
    /\ s[1] \in 1..9999
    /\ s[2] \in 1..12
    /\ s[3] \in 1..days_in_month(s[1], s[2])
    /\ s[4] \in 0..23

fromisoformat(s) == [year |-> s[1], month |-> s[2], day |-> s[3], hour |-> s[4]]

----------------------------------------------------------------------------
(* state.json.                                                             *)

\* os.path.exists(STATE_FILE) is false
NoFile == [exists |-> FALSE, kind |-> "none", last_update |-> None,
           task_states |-> EmptyDict]

\* the file as json.dump leaves it: {"last_update": ..., "task_states": ...}
JsonFile(last_update_str, states) ==
    [exists |-> TRUE, kind |-> "json", last_update |-> last_update_str,
     task_states |-> states]

\* the file as open(STATE_FILE, 'w') leaves it before json.dump has written
\* it out in full: empty or a prefix of the document, which json.load rejects
PartialFile == [exists |-> TRUE, kind |-> "partial", last_update |-> None,
                task_states |-> EmptyDict]

----------------------------------------------------------------------------
(* load_state.                                                             *)

\* variant: the comparison the other way round
daily_due_reversed(t, last) == date_gt(date_of(last), date_of(t))

\* 1. Daily Reset: now.date() > last_update_date.date()
daily_due(t, last) == date_gt(date_of(t), date_of(last))

\* variant: fires only for a later ISO week of a later or equal ISO year
weekly_due_if_later_week(t, last) ==
    \/ isocalendar(t)[1] > isocalendar(last)[1]
    \/ isocalendar(t)[1] = isocalendar(last)[1]
         /\ isocalendar(t)[2] > isocalendar(last)[2]

\* 2. Weekly Reset: now_week != last_update_week
weekly_due(t, last) == isocalendar(t)[2] # isocalendar(last)[2]

\* variant: the year is not compared
monthly_due_month_only(t, last) == t.month # last.month

\* 3. Monthly Reset: now.month != last.month or now.year != last.year
monthly_due(t, last) == t.month # last.month \/ t.year # last.year

\* variant: a due record is flipped instead of set to False
apply_resets_toggling(states, t, last) ==
    [k \in DOMAIN states |->
        IF \/ daily_due(t, last) /\ startswith(k, task_id_of(S_Daily, <<>>))
           \/ weekly_due(t, last) /\ startswith(k, task_id_of(S_Weekly, <<>>))
           \/ monthly_due(t, last) /\ startswith(k, task_id_of(S_Monthly, <<>>))
        THEN ~states[k] ELSE states[k]]

\* the three resets, in the order the code applies them
apply_resets(states, t, last) ==
    LET d == IF daily_due(t, last)
             THEN ClearPrefix(states, task_id_of(S_Daily, <<>>)) ELSE states
        w == IF weekly_due(t, last)
             THEN ClearPrefix(d, task_id_of(S_Weekly, <<>>)) ELSE d
        m == IF monthly_due(t, last)
             THEN ClearPrefix(w, task_id_of(S_Monthly, <<>>)) ELSE w
    IN  m

\* load_state() at time t: the dict it returns, or the exception it raises
\* (json.JSONDecodeError from json.load, ValueError from fromisoformat)
Returned(value) == [raised |-> FALSE, value |-> value]
Raised == [raised |-> TRUE, value |-> EmptyDict]

load_state(f, t) ==
    IF ~f.exists THEN Returned(EmptyDict)
    ELSE IF f.kind # "json" THEN Raised
    ELSE IF f.last_update = None THEN Returned(f.task_states)
    ELSE IF ~iso_parses(f.last_update) THEN Raised
    ELSE Returned(apply_resets(f.task_states, t, fromisoformat(f.last_update)))

\* variant: the snapshot is written without the dict it was given
save_state_without_states(states, t) == JsonFile(isoformat(t), EmptyDict)

\* save_state(task_states) at time t
save_state(states, t) == JsonFile(isoformat(t), states)

----------------------------------------------------------------------------
(* The task catalog (tasks_df) and the script's view of it.                *)

\* re.sub(r'[...,]', '', s): the currency symbols (written "$" here) and
\* the thousands commas are removed
re_sub_currency(s) == SelectSeq(s, LAMBDA c : c \notin {"$", ","})

\* float() ignores blanks around the numeral
RECURSIVE strip(_)
strip(s) ==
    IF Len(s) = 0 THEN s
    ELSE IF s[1] = " " THEN strip(Tail(s))
    ELSE IF s[Len(s)] = " " THEN strip(SubSeq(s, 1, Len(s) - 1))
    ELSE s

Digits == {"0", "1", "2", "3", "4", "5", "6", "7", "8", "9"}

digit_value(c) ==
    CASE c = "0" -> 0 [] c = "1" -> 1 [] c = "2" -> 2 [] c = "3" -> 3
      [] c = "4" -> 4 [] c = "5" -> 5 [] c = "6" -> 6 [] c = "7" -> 7
      [] c = "8" -> 8 [] c = "9" -> 9

RECURSIVE digits_value(_)
digits_value(s) ==
    IF Len(s) = 0 THEN 0
    ELSE 10 * digits_value(SubSeq(s, 1, Len(s) - 1)) + digit_value(s[Len(s)])

\* float(text) accepts a decimal numeral (digits with at most one point)
\* and raises ValueError on anything else these strings can spell
float_parses(text) ==
    LET t == strip(text)
    IN  /\ \A i \in 1..Len(t) : t[i] \in Digits \cup {"."}
        /\ Cardinality({i \in 1..Len(t) : t[i] = "."}) <= 1
        /\ \E i \in 1..Len(t) : t[i] \in Digits

\* the float, in hundredths (numerals of at most two decimals)
float_cents(text) ==
    LET t == strip(text)
        dots == {i \in 1..Len(t) : t[i] = "."}
        dot == IF dots = {} THEN Len(t) + 1 ELSE CHOOSE i \in dots : TRUE
        whole == SubSeq(t, 1, dot - 1)
        frac == SubSeq(t, dot + 1, Len(t))
    IN  100 * digits_value(whole)
          + (IF Len(frac) = 0 THEN 0
             ELSE IF Len(frac) = 1 THEN 10 * digit_value(frac[1])
             ELSE 10 * digit_value(frac[1]) + digit_value(frac[2]))

\* load_data: the Reward lambda raises (IndexError on an empty string,
\* ValueError from float) or yields a number
reward_raises(value) ==
    \/ Len(value) = 0
    \/ value[1] = "$" /\ ~float_parses(re_sub_currency(value))

\* load_data: Reward = float(re.sub(...)) if str(x)[0] in currency else 0.0
Reward(value) ==
    IF value[1] = "$" THEN float_cents(re_sub_currency(value)) ELSE 0

\* load_data: IsMustDo = 'Must do' in str(Value)
IsMustDo(value) == contains(value, S_MustDo)

Row(task, cadence, value) ==
    [Task |-> task, Cadence |-> cadence, Value |-> value,
     Reward |-> Reward(value), IsMustDo |-> IsMustDo(value)]

\* a row of the CSV as read_csv delivers it
RawRow(task, cadence, value) ==
    [Task |-> task, Cadence |-> cadence, Value |-> value]

\* load_data: the frame with its Reward and IsMustDo columns, or None when
\* processing raised (the except branch reports the error)
NotLoaded == [state |-> "unloaded", rows |-> <<>>]
ReturnedNone == [state |-> "None", rows |-> <<>>]

load_data(rows) ==
    IF \E i \in 1..Len(rows) : reward_raises(rows[i].Value)
    THEN ReturnedNone
    ELSE [state |-> "frame",
          rows |-> [i \in 1..Len(rows) |->
                      Row(rows[i].Task, rows[i].Cadence, rows[i].Value)]]

\* the rows of the CSV, in file order
CSV ==
    << RawRow(<<"a">>, S_Daily, S_MustDo),
       RawRow(<<"b">>, S_Weekly, <<"$", "5">>),
       RawRow(<<"c">>, S_Monthly, S_MustDo),
       RawRow(<<"d">>, S_daily, <<"$", "1", ".", "5", "0">>),
       RawRow(<<"e">>, S_Yearly, <<"$", "9">>) >>

\* tasks_df = load_data(CSV_URL)
tasks_df == load_data(CSV).rows

\* total_possible_reward = tasks_df['Reward'].sum()
RECURSIVE reward_sum(_)
reward_sum(rows) ==
    IF Len(rows) = 0 THEN 0
    ELSE rows[1].Reward + reward_sum(Tail(rows))

row_task_id(row) == task_id_of(row.Cadence, row.Task)

\* tasks_df[tasks_df['Cadence'].str.lower() == label]
in_group(row, label) == lower(row.Cadence) = label

\* variant: every row is rendered, whatever its cadence
displayed_whatever_cadence(row) == TRUE

\* the rows some display_task_list call renders
displayed(row) ==
    in_group(row, S_daily) \/ in_group(row, S_weekly) \/ in_group(row, S_monthly)

\* st.checkbox(label, value=is_currently_checked, key=...): the box shows
\* `value` unless the user clicked it in this run
checkbox(value, clicked) == IF clicked THEN ~value ELSE value

NoToast == [paid |-> None, daily |-> None]

\* tasks_df[tasks_df['Cadence'].str.lower() == label], rows in file order
group(label) == SelectSeq(tasks_df, LAMBDA row : in_group(row, label))

\* variant: the reward is added whether or not the box is checked
RECURSIVE display_task_list_unchecked_too(_, _)
display_task_list_unchecked_too(rows, states) ==
    IF Len(rows) = 0 THEN 0
    ELSE (IF ~rows[1].IsMustDo THEN rows[1].Reward ELSE 0)
           + display_task_list_unchecked_too(Tail(rows), states)

\* display_task_list(rows) in a run that renders to the end: earned_value
RECURSIVE display_task_list(_, _)
display_task_list(rows, states) ==
    IF Len(rows) = 0 THEN 0
    ELSE (IF checkbox(Get(states, row_task_id(rows[1])), FALSE)
               /\ ~rows[1].IsMustDo
          THEN rows[1].Reward ELSE 0)
           + display_task_list(Tail(rows), states)

\* total_earned = daily_earnings + weekly_earnings + monthly_earnings
total_earned(states) ==
    display_task_list(group(S_daily), states)
      + display_task_list(group(S_weekly), states)
      + display_task_list(group(S_monthly), states)

\* total_possible_reward = tasks_df['Reward'].sum()
total_possible_reward == reward_sum(tasks_df)

\* total_tasks = len(tasks_df)
total_tasks == Len(tasks_df)

\* sum(1 for value in st.session_state.task_states.values() if value)
completed_tasks(states) == Cardinality({k \in DOMAIN states : states[k]})

\* variant: any change of a paid task counts, unticking included
paid_surprise_on_any_change(row, is_now_checked, before) ==
    IF ~row.IsMustDo THEN row.Task ELSE before

\* display_task_list on a change of `row` to is_now_checked: the surprise
\* the session state records
paid_surprise(row, is_now_checked, before) ==
    IF is_now_checked /\ ~row.IsMustDo THEN row.Task ELSE before

daily_surprise(row, is_now_checked, before) ==
    IF is_now_checked /\ row.IsMustDo /\ lower(row.Cadence) = S_daily
    THEN row.Task ELSE before

Idle == [at |-> "idle", prev |-> NoFile, next |-> NoFile]

\* no save_state call is running beside the session's own
NoWriters == [size |-> 0, at |-> <<>>, doc |-> <<>>]

----------------------------------------------------------------------------
(* The clock.                                                              *)

Timestamps ==
    { [year |-> y, month |-> m, day |-> d, hour |-> h] :
        y \in 2024..(2024 + MaxYears), m \in {1, 12}, d \in {1, 2, 30},
        h \in {9, 10} }

later(a, b) ==
    \/ date_gt(date_of(a), date_of(b))
    \/ date_of(a) = date_of(b) /\ a.hour > b.hour

At(y, m, d, h) == [year |-> y, month |-> m, day |-> d, hour |-> h]

\* the moments at which the running application is observed: the same day
\* an hour later, the next day, a later week, a later month, the next year
SessionClock ==
    { At(2024, 1, 1, 9), At(2024, 1, 1, 10), At(2024, 1, 2, 9),
      At(2024, 1, 30, 9), At(2024, 12, 30, 9), At(2025, 1, 2, 9) }

FirstTimestamp == CHOOSE t \in SessionClock : \A u \in SessionClock : ~later(t, u)

\* time passes
Tick ==
    /\ \E t \in SessionClock : later(t, now) /\ now' = t
    /\ UNCHANGED <<csv, df, writers>>
    /\ UNCHANGED <<file, status, task_states, last_paid_task_surprise,
                   last_daily_task_surprise, toast, again, pc>>

----------------------------------------------------------------------------
(* The session script.                                                     *)

\* variant: the reconciled dict is written back as soon as it is loaded
InitSessionSaving ==
    /\ status \in {"closed", "error"}
    /\ pc.at # "dumping"
    /\ LET r == load_state(file, now)
       IN  IF r.raised
           THEN /\ status' = "error"
                /\ UNCHANGED <<task_states, last_paid_task_surprise,
                               last_daily_task_surprise, toast, file>>
           ELSE /\ status' = "ready"
                /\ task_states' = r.value
                /\ last_paid_task_surprise' = None
                /\ last_daily_task_surprise' = None
                /\ toast' = NoToast
                /\ file' = IF file.exists THEN save_state(r.value, now) ELSE file
    /\ UNCHANGED <<csv, df, writers>>
    /\ UNCHANGED <<now, again, pc>>

\* a fresh session: "if 'initialized' not in st.session_state", then the
\* first rendering of the page; an exception in load_state aborts the run
\* before `initialized` is set
InitSession ==
    /\ status \in {"closed", "error"}
    /\ pc.at # "dumping"
    /\ LET r == load_state(file, now)
       IN  IF r.raised
           THEN /\ status' = "error"
                /\ UNCHANGED <<task_states, last_paid_task_surprise,
                               last_daily_task_surprise, toast>>
           ELSE /\ status' = "ready"
                /\ task_states' = r.value
                /\ last_paid_task_surprise' = None
                /\ last_daily_task_surprise' = None
                /\ toast' = NoToast
    /\ UNCHANGED <<csv, df, writers>>
    /\ UNCHANGED <<now, file, again, pc>>

\* the user clicks the checkbox of `row`: the run that detects the change,
\* records it, saves and calls st.rerun(), and the rerun that surfaces and
\* clears the surprises
Toggle(row) ==
    /\ status = "ready"
    /\ pc.at # "dumping"
    /\ displayed(row)
    /\ LET task_id == row_task_id(row)
           is_currently_checked == Get(task_states, task_id)
           is_now_checked == checkbox(is_currently_checked, TRUE)
           paid == paid_surprise(row, is_now_checked, last_paid_task_surprise)
           daily == daily_surprise(row, is_now_checked, last_daily_task_surprise)
       IN  /\ is_now_checked # is_currently_checked
           /\ task_states' = Put(task_states, task_id, is_now_checked)
           /\ file' = save_state(task_states', now)
           /\ toast' = [paid |-> paid, daily |-> daily]
           /\ last_paid_task_surprise' = None
           /\ last_daily_task_surprise' = None
    /\ UNCHANGED <<csv, df, writers>>
    /\ UNCHANGED <<now, status, again, pc>>

\* variant: the dict is emptied in the session only
ResetAllUnsaved ==
    /\ status = "ready"
    /\ pc.at # "dumping"
    /\ task_states' = EmptyDict
    /\ toast' = [paid |-> last_paid_task_surprise,
                 daily |-> last_daily_task_surprise]
    /\ last_paid_task_surprise' = None
    /\ last_daily_task_surprise' = None
    /\ UNCHANGED <<csv, df, writers>>
    /\ UNCHANGED <<now, file, status, again, pc>>

\* "Reset All Tasks Now": empty the dict, save it, rerun
ResetAll ==
    /\ status = "ready"
    /\ pc.at # "dumping"
    /\ task_states' = EmptyDict
    /\ file' = save_state(EmptyDict, now)
    /\ toast' = [paid |-> last_paid_task_surprise,
                 daily |-> last_daily_task_surprise]
    /\ last_paid_task_surprise' = None
    /\ last_daily_task_surprise' = None
    /\ UNCHANGED <<csv, df, writers>>
    /\ UNCHANGED <<now, status, again, pc>>

\* the browser tab is closed or the server restarts: the session state is gone
CloseSession ==
    /\ status \in {"ready", "error"}
    /\ pc.at # "dumping"
    /\ status' = "closed"
    /\ task_states' = EmptyDict
    /\ last_paid_task_surprise' = None
    /\ last_daily_task_surprise' = None
    /\ toast' = NoToast
    /\ UNCHANGED <<csv, df, writers>>
    /\ UNCHANGED <<now, file, again, pc>>

----------------------------------------------------------------------------
(* The running application: one session at a time over one state file.     *)

\* state files found at start-up: none, one cut short, one with an invalid
\* or a missing last_update, and one left by an earlier run
BadTimestamp == <<2024, 13, 1, 9>>

StaleKey == task_id_of(S_Daily, <<"z">>)

\* a second record whose task has left the catalog since it was saved
RemovedKey == task_id_of(S_Weekly, <<"y">>)

InitFiles ==
    { NoFile, PartialFile,
      JsonFile(BadTimestamp, EmptyDict),
      JsonFile(None, [k \in {StaleKey, RemovedKey} |-> TRUE]),
      JsonFile(isoformat(FirstTimestamp),
               [k \in {StaleKey, row_task_id(tasks_df[2])} |-> TRUE]) }

NotAgain == [done |-> FALSE, value |-> EmptyDict]

Init ==
    /\ now = FirstTimestamp
    /\ file \in InitFiles
    /\ status = "closed"
    /\ task_states = EmptyDict
    /\ last_paid_task_surprise = None
    /\ last_daily_task_surprise = None
    /\ toast = NoToast
    /\ again = NotAgain
    /\ pc = Idle
    /\ csv = CSV
    /\ df = load_data(CSV)
    /\ writers = NoWriters

Next ==
    \/ Tick
    \/ InitSession
    \/ \E i \in 1..Len(tasks_df) : Toggle(tasks_df[i])
    \/ ResetAll
    \/ CloseSession

Spec == Init /\ [][Next]_vars

----------------------------------------------------------------------------
(* load_state on its own: every stored snapshot against every clock.       *)

\* the task ids the displayed rows of the catalog are stored under
SnapshotKeys == { row_task_id(tasks_df[i]) : i \in {j \in 1..Len(tasks_df) : displayed(tasks_df[j])} }

SnapshotDicts == UNION { [ks -> BOOLEAN] : ks \in SUBSET SnapshotKeys }

InitLoad ==
    /\ now \in Timestamps
    /\ \E d \in SnapshotDicts :
         \/ \E last \in Timestamps : file = JsonFile(isoformat(last), d)
         \/ file = JsonFile(None, d)
    /\ status = "closed"
    /\ task_states = EmptyDict
    /\ last_paid_task_surprise = None
    /\ last_daily_task_surprise = None
    /\ toast = NoToast
    /\ again = NotAgain
    /\ pc = Idle
    /\ csv = CSV
    /\ df = load_data(CSV)
    /\ writers = NoWriters

\* load_state run once more over its own result, with the stored
\* last_update and the same clock
ReconcileAgain ==
    /\ status = "ready"
    /\ ~again.done
    /\ again' = [done |-> TRUE,
                 value |-> load_state([file EXCEPT !.task_states = task_states],
                                      now).value]
    /\ UNCHANGED <<csv, df, writers>>
    /\ UNCHANGED <<now, file, status, task_states, last_paid_task_surprise,
                   last_daily_task_surprise, toast, pc>>

NextLoad == InitSession \/ ReconcileAgain

SpecLoad == InitLoad /\ [][NextLoad]_vars

----------------------------------------------------------------------------
(* save_state step by step, with the process dying in between.             *)

\* the run up to open(STATE_FILE, 'w'): the change is recorded in the
\* session, the snapshot is built, and the file is truncated
ToggleOpen(row) ==
    /\ status = "ready"
    /\ pc.at # "dumping"
    /\ displayed(row)
    /\ LET task_id == row_task_id(row)
           is_currently_checked == Get(task_states, task_id)
           is_now_checked == checkbox(is_currently_checked, TRUE)
       IN  /\ is_now_checked # is_currently_checked
           /\ task_states' = Put(task_states, task_id, is_now_checked)
           /\ last_paid_task_surprise' =
                  paid_surprise(row, is_now_checked, last_paid_task_surprise)
           /\ last_daily_task_surprise' =
                  daily_surprise(row, is_now_checked, last_daily_task_surprise)
           /\ pc' = [at |-> "dumping", prev |-> file,
                     next |-> save_state(task_states', now)]
           /\ file' = PartialFile
    /\ UNCHANGED <<csv, df, writers>>
    /\ UNCHANGED <<now, status, toast, again>>

ResetOpen ==
    /\ status = "ready"
    /\ pc.at # "dumping"
    /\ task_states' = EmptyDict
    /\ pc' = [at |-> "dumping", prev |-> file,
              next |-> save_state(EmptyDict, now)]
    /\ file' = PartialFile
    /\ UNCHANGED <<csv, df, writers>>
    /\ UNCHANGED <<now, status, last_paid_task_surprise,
                   last_daily_task_surprise, toast, again>>

\* json.dump writes the document out, the file is closed, st.rerun()
SaveDone ==
    /\ pc.at = "dumping"
    /\ file' = pc.next
    /\ pc' = Idle
    /\ toast' = [paid |-> last_paid_task_surprise,
                 daily |-> last_daily_task_surprise]
    /\ last_paid_task_surprise' = None
    /\ last_daily_task_surprise' = None
    /\ UNCHANGED <<csv, df, writers>>
    /\ UNCHANGED <<now, status, task_states, again>>

\* the process dies between open(STATE_FILE, 'w') and the end of json.dump
Crash ==
    /\ pc.at = "dumping"
    /\ pc' = [pc EXCEPT !.at = "crashed"]
    /\ status' = "closed"
    /\ task_states' = EmptyDict
    /\ last_paid_task_surprise' = None
    /\ last_daily_task_surprise' = None
    /\ toast' = NoToast
    /\ UNCHANGED <<csv, df, writers>>
    /\ UNCHANGED <<now, file, again>>

InitCrash ==
    /\ now = FirstTimestamp
    /\ file \in { NoFile,
                  JsonFile(isoformat(FirstTimestamp),
                           [k \in {row_task_id(tasks_df[2])} |-> TRUE]) }
    /\ status = "closed"
    /\ task_states = EmptyDict
    /\ last_paid_task_surprise = None
    /\ last_daily_task_surprise = None
    /\ toast = NoToast
    /\ again = NotAgain
    /\ pc = Idle
    /\ csv = CSV
    /\ df = load_data(CSV)
    /\ writers = NoWriters

NextCrash ==
    \/ Tick
    \/ InitSession
    \/ \E i \in 1..Len(tasks_df) : ToggleOpen(tasks_df[i])
    \/ ResetOpen
    \/ SaveDone
    \/ Crash
    \/ CloseSession

SpecCrash == InitCrash /\ [][NextCrash]_vars

----------------------------------------------------------------------------
(* load_data on its own: catalogs of a few rows over sample values.        *)

\* "Must do", "$5", "$1.50", "$5 Must do", "Must do -", "n/a", "$x"
SampleValues ==
    { S_MustDo,
      <<"$", "5">>,
      <<"$", "1", ".", "5", "0">>,
      <<"$", "5", " ">> \o S_MustDo,
      S_MustDo \o <<" ", "-">>,
      <<"n", "/", "a">>,
      <<"$", "x">> }

SampleRows ==
    { RawRow(<<"a">>, c, v) : c \in {S_Daily, S_Weekly}, v \in SampleValues }

InitData ==
    /\ \E n \in 1..MaxRows : csv \in [1..n -> SampleRows]
    /\ df = NotLoaded
    /\ now = FirstTimestamp
    /\ file = NoFile
    /\ status = "closed"
    /\ task_states = EmptyDict
    /\ last_paid_task_surprise = None
    /\ last_daily_task_surprise = None
    /\ toast = NoToast
    /\ again = NotAgain
    /\ pc = Idle
    /\ writers = NoWriters

\* tasks_df = load_data(CSV_URL)
LoadData ==
    /\ df.state = "unloaded"
    /\ df' = load_data(csv)
    /\ UNCHANGED <<now, file, status, task_states, last_paid_task_surprise,
                   last_daily_task_surprise, toast, again, pc, csv, writers>>

NextData == LoadData

SpecData == InitData /\ [][NextData]_vars

----------------------------------------------------------------------------
(* Two save_state calls on the same state.json, step by step.              *)

\* the length of the text json.dump(state, f, indent=4) writes: the braces,
\* the "last_update" line with a 26-character timestamp, the "task_states"
\* line, one line per record, the closing lines
RECURSIVE records_size(_, _)
records_size(states, keys) ==
    IF keys = {} THEN 0
    ELSE LET k == CHOOSE k \in keys : TRUE
         IN  8 + (Len(k) + 2) + 2 + (IF states[k] THEN 4 ELSE 5) + 1
               + (IF keys = {k} THEN 0 ELSE 1)
               + records_size(states, keys \ {k})

json_size(states) ==
    2 + (4 + 16 + 26 + 2 + 1)
      + (IF DOMAIN states = {} THEN 22
         ELSE 21 + records_size(states, DOMAIN states) + 6)
      + 1

WriterKeys == {row_task_id(tasks_df[1]), row_task_id(tasks_df[2])}

WriterDicts == UNION { [ks -> BOOLEAN] : ks \in SUBSET WriterKeys }

InitConcurrent ==
    /\ now = FirstTimestamp
    /\ file = save_state(EmptyDict, FirstTimestamp)
    /\ \E d1 \in WriterDicts, d2 \in WriterDicts :
         writers = [size |-> json_size(EmptyDict),
                    at |-> <<"start", "start">>,
                    doc |-> <<d1, d2>>]
    /\ status = "closed"
    /\ task_states = EmptyDict
    /\ last_paid_task_surprise = None
    /\ last_daily_task_surprise = None
    /\ toast = NoToast
    /\ again = NotAgain
    /\ pc = Idle
    /\ csv = CSV
    /\ df = load_data(CSV)

\* with open(STATE_FILE, 'w') as f: the file is cut to length 0
WriterOpen(w) ==
    /\ writers.at[w] = "start"
    /\ writers' = [writers EXCEPT !.at[w] = "opened", !.size = 0]
    /\ file' = PartialFile
    /\ UNCHANGED <<now, status, task_states, last_paid_task_surprise,
                   last_daily_task_surprise, toast, again, pc, csv, df>>

\* json.dump and the end of the with block: the text goes out from offset 0
\* of this writer's own file object, over whatever the file holds by now;
\* a longer text written in between keeps its tail
WriterClose(w) ==
    /\ writers.at[w] = "opened"
    /\ LET n == json_size(writers.doc[w])
       IN  /\ file' = IF n >= writers.size
                      THEN save_state(writers.doc[w], now)
                      ELSE PartialFile
           /\ writers' = [writers EXCEPT
                             !.at[w] = "done",
                             !.size = IF n >= writers.size THEN n ELSE writers.size]
    /\ UNCHANGED <<now, status, task_states, last_paid_task_surprise,
                   last_daily_task_surprise, toast, again, pc, csv, df>>

NextConcurrent ==
    \/ \E w \in {1, 2} : WriterOpen(w)
    \/ \E w \in {1, 2} : WriterClose(w)

SpecConcurrent == InitConcurrent /\ [][NextConcurrent]_vars

----------------------------------------------------------------------------
(* Properties.                                                             *)

\* the record stored under key k belongs to the cadence with this label
HasCadence(k, label) == startswith(k, task_id_of(label, <<>>))

\* a session has just loaded a snapshot that carries a last_update
LoadedSnapshot == status = "ready" /\ file.last_update # None

Last == fromisoformat(file.last_update)

Stored(k) == Get(file.task_states, k)

DailyId == row_task_id(tasks_df[1])
WeeklyId == row_task_id(tasks_df[2])
MonthlyId == row_task_id(tasks_df[3])

\* <<a1, a2>> comes after <<b1, b2>>
PairLater(a, b) == a[1] > b[1] \/ (a[1] = b[1] /\ a[2] > b[2])

\* C1: when load_state reads a snapshot whose last_update is on a strictly
\* earlier calendar date than now, every Daily record is false in the
\* returned dict; and if now also has the ISO week number and the month and
\* year of last_update, every Weekly and Monthly record keeps its stored
\* value.
C1_DailyRollover ==
    (LoadedSnapshot /\ date_gt(date_of(now), date_of(Last))) =>
        /\ \A k \in DOMAIN task_states :
               HasCadence(k, S_Daily) => task_states[k] = FALSE
        /\ ( /\ isocalendar(now)[2] = isocalendar(Last)[2]
             /\ now.month = Last.month
             /\ now.year = Last.year ) =>
               \A k \in DOMAIN task_states :
                   (HasCadence(k, S_Weekly) \/ HasCadence(k, S_Monthly)) =>
                       task_states[k] = Stored(k)

C1_Witness ==
    /\ LoadedSnapshot
    /\ Last = At(2024, 1, 1, 10)
    /\ now = At(2024, 1, 2, 9)
    /\ Stored(DailyId) /\ Stored(WeeklyId) /\ Stored(MonthlyId)
    /\ ~Get(task_states, DailyId)
    /\ Get(task_states, WeeklyId)
    /\ Get(task_states, MonthlyId)

C3_MonthlyRollover ==
    LoadedSnapshot =>
        \A k \in DOMAIN task_states :
            /\ HasCadence(k, S_Monthly) =>
                   IF now.month # Last.month \/ now.year # Last.year
                   THEN task_states[k] = FALSE
                   ELSE task_states[k] = Stored(k)
            /\ (HasCadence(k, S_Daily) /\ ~date_gt(date_of(now), date_of(Last)))
                   => task_states[k] = Stored(k)
            /\ (HasCadence(k, S_Weekly)
                  /\ isocalendar(now)[2] = isocalendar(Last)[2])
                   => task_states[k] = Stored(k)

C3_Witness ==
    /\ LoadedSnapshot
    /\ Last = At(2024, 1, 2, 9)
    /\ now = At(2025, 1, 2, 9)
    /\ Stored(MonthlyId) /\ Stored(WeeklyId)
    /\ ~Get(task_states, MonthlyId)
    /\ Get(task_states, WeeklyId)

\* C4: whenever the app is reopened in a later period of a cadence than the
\* one containing last_update (a later calendar day, a later ISO week, a
\* later calendar month), every record of that cadence is false in the
\* state load_state returns.
C4_CleanSlate ==
    LoadedSnapshot =>
        \A k \in DOMAIN task_states :
            /\ (HasCadence(k, S_Daily) /\ date_gt(date_of(now), date_of(Last)))
                   => task_states[k] = FALSE
            /\ (HasCadence(k, S_Weekly)
                  /\ PairLater(isocalendar(now), isocalendar(Last)))
                   => task_states[k] = FALSE
            /\ (HasCadence(k, S_Monthly)
                  /\ PairLater(<<now.year, now.month>>, <<Last.year, Last.month>>))
                   => task_states[k] = FALSE

\* what the page shows for a row once a script run has completed
ShownChecked(states, row) == checkbox(Get(states, row_task_id(row)), FALSE)

\* the store holds a snapshot with a readable last_update
ReadableFile ==
    /\ file.exists
    /\ file.kind = "json"
    /\ file.last_update # None
    /\ iso_parses(file.last_update)

\* C5: in every turn of a session (a fresh load or a user interaction) that
\* happens on a later calendar day than the last recorded update, no Daily
\* task is shown completed, except the one the user ticks in that very turn.
C5_EveryTurnReconciled ==
    [][ ( /\ status' = "ready"
          /\ now' = now
          /\ ReadableFile
          /\ date_gt(date_of(now), date_of(Last)) ) =>
            \A i \in 1..Len(tasks_df) :
                (in_group(tasks_df[i], S_daily)
                   /\ ShownChecked(task_states', tasks_df[i]))
                    => ~Get(task_states, row_task_id(tasks_df[i])) ]_vars

\* the cadence bucket of key k has rolled over between the moments a and b
RolledOver(k, a, b) ==
    \/ HasCadence(k, S_Daily) /\ date_of(a) # date_of(b)
    \/ HasCadence(k, S_Weekly) /\ isocalendar(a) # isocalendar(b)
    \/ HasCadence(k, S_Monthly) /\ <<a.year, a.month>> # <<b.year, b.month>>

\* a step in which the user's click changed a record of the session
IsToggleStep ==
    /\ status = "ready"
    /\ status' = "ready"
    /\ \E k \in DOMAIN task_states' : Get(task_states, k) # task_states'[k]

\* C6: after any single toggle the persisted task_states equals the
\* session's dict, so a restart followed by load_state, now or at any later
\* time, yields the same completion state for every task whose cadence
\* bucket has not rolled over since the save.
C6_WriteThrough ==
    [][ IsToggleStep =>
          /\ file'.kind = "json"
          /\ file'.task_states = task_states'
          /\ \A t \in SessionClock :
                 (t = now \/ later(t, now)) =>
                     LET r == load_state(file', t)
                     IN  /\ ~r.raised
                         /\ \A i \in 1..Len(tasks_df) :
                                LET k == row_task_id(tasks_df[i])
                                IN  ~RolledOver(k, t, now) =>
                                        Get(r.value, k) = Get(task_states', k) ]_vars

C6_Witness ==
    /\ status = "ready"
    /\ ReadableFile
    /\ file.last_update = isoformat(now)
    /\ file.task_states = task_states
    /\ Get(task_states, DailyId)
    /\ WeeklyId \in DOMAIN task_states /\ ~task_states[WeeklyId]

\* C7: after "Reset All" and the rerun it triggers the session's dict is
\* empty, the completed count is 0, no task is shown checked and the
\* persisted task_states is empty, whatever was checked before.
C7_FullReset ==
    [][ ResetAll =>
          /\ task_states' = EmptyDict
          /\ completed_tasks(task_states') = 0
          /\ \A i \in 1..Len(tasks_df) :
                 displayed(tasks_df[i]) => ~ShownChecked(task_states', tasks_df[i])
          /\ file'.exists /\ file'.kind = "json"
          /\ file'.task_states = EmptyDict ]_vars

C7_Witness ==
    /\ status = "ready"
    /\ task_states = EmptyDict
    /\ ReadableFile
    /\ file.task_states = EmptyDict
    /\ later(Last, FirstTimestamp)

\* C8: applying the cadence clearing of load_state to its own result with
\* the same last_update and the same now yields the same dict as applying
\* it once.
C8_Idempotent == again.done => again.value = task_states

C8_Witness ==
    /\ again.done
    /\ LoadedSnapshot
    /\ task_states # file.task_states
    /\ again.value = task_states

\* C9: if the process dies during save_state, the state file afterwards
\* holds either the complete previous snapshot or the complete new one.
C9_AtomicSave == (pc.at = "crashed") => (file = pc.prev \/ file = pc.next)

\* C10: when the state file is absent, and also when it exists but is
\* malformed or carries an unparsable last_update, session initialization
\* completes with an empty completion dict.
C10_LoadNeverFails ==
    [][ ( /\ status = "closed"
          /\ status' # "closed"
          /\ \/ ~file.exists
             \/ file.kind # "json"
             \/ (file.last_update # None /\ ~iso_parses(file.last_update)) ) =>
            (status' = "ready" /\ task_states' = EmptyDict) ]_vars

\* C11: for every raw Value containing "Must do", whatever else it contains
\* (a leading currency symbol and amount included), the loaded task has
\* IsMustDo true and Reward 0, so it adds nothing to the potential total
\* (in a catalog whose other rows carry well-formed values).
C11_MustDoParsing ==
    ( /\ df.state # "unloaded"
      /\ \A j \in 1..Len(csv) :
             contains(csv[j].Value, S_MustDo) \/ ~reward_raises(csv[j].Value) ) =>
        \A i \in 1..Len(csv) :
            contains(csv[i].Value, S_MustDo) =>
                /\ df.state = "frame"
                /\ df.rows[i].IsMustDo
                /\ df.rows[i].Reward = 0

\* the sum of Reward over the catalog rows with these indices
RECURSIVE SumReward(_)
SumReward(indices) ==
    IF indices = {} THEN 0
    ELSE LET i == CHOOSE i \in indices : TRUE
         IN  tasks_df[i].Reward + SumReward(indices \ {i})

\* C12: in every turn that completes rendering, the earned total is the sum
\* of Reward over exactly the tasks that are checked and not must-do, and
\* the potential total is the sum of Reward over all catalog tasks; a
\* checked must-do task contributes zero.
C12_EarnedTotal ==
    (status = "ready") =>
        /\ total_earned(task_states) =
               SumReward({i \in 1..Len(tasks_df) :
                            /\ Get(task_states, row_task_id(tasks_df[i]))
                            /\ ~tasks_df[i].IsMustDo})
        /\ total_possible_reward = SumReward(1..Len(tasks_df))

C12_Witness ==
    /\ status = "ready"
    /\ Get(task_states, DailyId) /\ tasks_df[1].IsMustDo
    /\ Get(task_states, WeeklyId) /\ ~tasks_df[2].IsMustDo
    /\ Get(task_states, row_task_id(tasks_df[4]))
    /\ ~Get(task_states, MonthlyId)
    /\ total_earned(task_states) = tasks_df[2].Reward + tasks_df[4].Reward
    /\ total_earned(task_states) < total_possible_reward

\* the user's click changed the record of this row in the step
Toggled(row) ==
    Get(task_states, row_task_id(row)) # Get(task_states', row_task_id(row))

\* C13: a toggle from unchecked to checked surfaces the paid surprise with
\* the task's name when the task is not must-do, and the daily surprise when
\* it is must-do with Daily cadence; a toggle to unchecked and a completion
\* of a must-do Weekly or Monthly task surface nothing; and no surprise is
\* left pending after the turn that surfaced it, so a later turn does not
\* surface it again.
C13_Surprises ==
    [][ (status = "ready" /\ status' = "ready" /\ now' = now) =>
          /\ last_paid_task_surprise' = None
          /\ last_daily_task_surprise' = None
          /\ \A i \in 1..Len(tasks_df) :
                 Toggled(tasks_df[i]) =>
                     LET row == tasks_df[i]
                         ticked == Get(task_states', row_task_id(row))
                     IN  /\ toast'.paid =
                               IF ticked /\ ~row.IsMustDo THEN row.Task ELSE None
                         /\ toast'.daily =
                               IF ticked /\ row.IsMustDo /\ in_group(row, S_daily)
                               THEN row.Task ELSE None
          /\ (\A i \in 1..Len(tasks_df) : ~Toggled(tasks_df[i]))
                 => toast' = NoToast ]_vars

C13_Witness ==
    /\ status = "ready"
    /\ toast.paid = tasks_df[2].Task
    /\ toast.daily = None
    /\ last_paid_task_surprise = None
    /\ Get(task_states, DailyId)
    /\ Get(task_states, MonthlyId)
    /\ Get(task_states, WeeklyId)

\* C14: load_state leaves the state file as it is, last_update and
\* task_states alike, also when it cleared a bucket; the file changes only
\* at a toggle or at a full reset.
C14_LoadDoesNotWrite ==
    [][ /\ (status # "ready" /\ status' = "ready") => file' = file
        /\ (file' # file) => (IsToggleStep \/ ResetAll) ]_vars

C14_Witness ==
    /\ status = "ready"
    /\ ReadableFile
    /\ file.last_update = isoformat(FirstTimestamp)
    /\ date_gt(date_of(now), date_of(Last))
    /\ Stored(WeeklyId)
    /\ ~Get(task_states, WeeklyId)

\* C15: for every task the catalog places in the Daily, Weekly or Monthly
\* group, the cadence string being matched without regard to case, a
\* rollover of that cadence clears the task's completion record on the next
\* load.
C15_GroupRollover ==
    LoadedSnapshot =>
        \A i \in 1..Len(tasks_df) :
            LET row == tasks_df[i]
                k == row_task_id(row)
            IN  /\ (in_group(row, S_daily) /\ date_gt(date_of(now), date_of(Last)))
                       => ~Get(task_states, k)
                /\ (in_group(row, S_weekly)
                      /\ isocalendar(now)[2] # isocalendar(Last)[2])
                       => ~Get(task_states, k)
                /\ (in_group(row, S_monthly)
                      /\ (now.month # Last.month \/ now.year # Last.year))
                       => ~Get(task_states, k)

\* the cadence of the row is none of daily, weekly, monthly in any case
Unrecognized(row) == lower(row.Cadence) \notin {S_daily, S_weekly, S_monthly}

\* the row is one of the rows of this group
InGroupRows(row, label) ==
    \E j \in 1..Len(group(label)) : group(label)[j] = row

\* C16: a catalog task whose cadence is not daily, weekly or monthly in any
\* case appears in none of the three groups and can never be toggled, so no
\* completion record is ever created for it and it never adds to the earned
\* total, while the catalog load itself succeeds.
C16_UnrecognizedExcluded ==
    /\ df.state = "frame"
    /\ \A i \in 1..Len(tasks_df) :
           Unrecognized(tasks_df[i]) =>
               LET row == tasks_df[i]
                   k == row_task_id(row)
               IN  /\ ~InGroupRows(row, S_daily)
                   /\ ~InGroupRows(row, S_weekly)
                   /\ ~InGroupRows(row, S_monthly)
                   /\ k \notin DOMAIN task_states
                   /\ k \notin DOMAIN file.task_states
                   /\ total_earned(Put(task_states, k, TRUE))
                          = total_earned(task_states)

C16_Witness ==
    /\ status = "ready"
    /\ Unrecognized(tasks_df[5])
    /\ \A i \in 1..4 : Get(task_states, row_task_id(tasks_df[i]))
    /\ row_task_id(tasks_df[5]) \notin DOMAIN task_states
    /\ file.task_states = task_states

\* C17: when two sessions sharing the state file call save_state nearly
\* simultaneously, in every interleaving the file ends up holding exactly
\* one of the two complete snapshots, never a mixture or a partial content.
C17_ConcurrentWriters ==
    (writers.at = <<"done", "done">>) =>
        \/ file = save_state(writers.doc[1], now)
        \/ file = save_state(writers.doc[2], now)

\* C18: in every reachable state, also when records of tasks that have left
\* the catalog remain in the store, the completed count shown in the sidebar
\* is at most the total count, so the progress ratio lies between 0 and 1.
C18_ProgressWithinBounds ==
    (status = "ready") => completed_tasks(task_states) <= total_tasks

\* C19: for every snapshot and every now, the dict load_state returns has
\* exactly the keys of the persisted task_states, and every record that is
\* true in it was true in the persisted snapshot: load never adds, removes
\* or sets a record to true.
C19_LoadOnlyClears ==
    (status = "ready") =>
        /\ DOMAIN task_states = DOMAIN file.task_states
        /\ \A k \in DOMAIN task_states : task_states[k] => file.task_states[k]

\* the clock stands before last_update: the Monthly record is cleared, the
\* Daily and the Weekly record (same week number) are kept, no key is lost
C19_Witness ==
    /\ LoadedSnapshot
    /\ Last = At(2025, 1, 2, 9)
    /\ now = At(2024, 1, 1, 9)
    /\ DOMAIN file.task_states = {DailyId, WeeklyId, MonthlyId}
    /\ Stored(DailyId) /\ Stored(WeeklyId) /\ Stored(MonthlyId)
    /\ DOMAIN task_states = DOMAIN file.task_states
    /\ task_states[DailyId] /\ task_states[WeeklyId] /\ ~task_states[MonthlyId]

====
